---- MODULE Spec2Model ----
(***************************************************************************)
(* Ingestion-to-retrieval pipeline of rag_pipeline: the vector store       *)
(* (VectorDAO), the embeddings generator (EmbeddingsGenerator) and the     *)
(* ingestion script (process_chunks).                                      *)
(*                                                                         *)
(* Tables are sequences of rows, so that a duplicated row would be         *)
(* visible.  Python's None is the string "None".                           *)
(***************************************************************************)
EXTENDS Integers, Sequences, FiniteSets, TLC

VARIABLES
    documents,      \* table documents: sequence of rows
    chunks,         \* table chunks: sequence of rows
    lastCall,       \* the latest VectorDAO call: its arguments, result and what it changed
    repeat,         \* the latest call repeated the call before it (same batch, both clean)
    lastDoc,        \* doc_id -> <<argument of the latest successful insert_document>>, or <<>>
    pc,             \* process_chunks: "idle", "embed", "docs", "chunks", "done"
    input,          \* the chunks read from the input file
    embed_batch,    \* EmbeddingsGenerator.batch_size
    batch_size,     \* process_chunks' batch_size
    i,              \* generate_embeddings: start of the next batch
    results,        \* generate_embeddings: results
    requests,       \* the texts of each provider request, in the order issued
    outcomes,       \* what the provider did to each batch: "ok", "short", "fail"
    doc_todo,       \* doc_ids the document loop has not reached yet
    j,              \* start of the next batch of successful_chunks to store
    passed,         \* the chunks handed to insert_chunks_batch by the latest call of the run
    docCalled,      \* doc_ids insert_document was called for in this run
    docFailed,      \* doc_ids whose insert_document returned False in this run
    runFailed,      \* a database fault hit this run
    kills,          \* how often the storage phase was interrupted and the run repeated
    killedAt,       \* rows in chunks at the latest interruption, -1 before any
    query,          \* the arguments of search_similar
    searched,       \* search_similar has returned
    searchOk,       \* the database answered the search
    searchResults,  \* the list search_similar returned
    now,            \* time.time(), in ticks
    last_request_time,  \* EmbeddingsGenerator._last_request_time
    tpc,            \* task -> "idle", "sleep", "inflight", "backoff", "done"
    wake,           \* task -> the time its sleep ends
    attempt,        \* task -> number of the attempt on its current batch
    prevOutcome,    \* task -> how the previous attempt on the current batch ended
    left,           \* task -> batches it has not finished
    concurrent,     \* more than one task uses the generator
    prevReq,        \* time of the provider request before the latest, -1 if none
    curReq,         \* time of the latest provider request, -1 if none
    firstReq,       \* time of the first provider request, -1 if none
    nreq,           \* number of provider requests made
    callArgs,       \* the arguments Searcher.search was called with
    searcherPc,     \* "ready" before the call of Searcher.search, "returned" after
    embedOutcome,   \* how the provider answered the query's embedding request
    daoOk,          \* whether the database answered search_similar
    daoCalled,      \* whether Searcher.search called search_similar
    daoArgs,        \* the arguments search_similar was called with
    returned,       \* the list Searcher.search returned
    doc_text,       \* the text handed to the chunker, a sequence of characters
    chunkerPc,      \* "ready" before the chunker is called, then the method called
    returned_chunks,\* the list of chunks the chunker returned
    raw_text,       \* the text handed to the cleaner, a sequence of characters
    cleanerPc,      \* "ready" before extract_reference_block is called, "returned" after
    cleaned,        \* what extract_reference_block returned
    act_text,       \* the text handed to chunk_text, a sequence of characters
    fallbackPc,     \* "ready" before chunk_text is called, "returned" after
    act_chunks,     \* the list chunk_text returned
    calls           \* the concurrent insert_chunks_batch calls, one record per caller

storeVars == <<documents, chunks>>
daoVars == <<lastCall, repeat, lastDoc>>
embedVars == <<input, embed_batch, i, results, requests, outcomes>>
ingestVars == <<pc, batch_size, doc_todo, j, passed, docCalled, docFailed, runFailed,
                kills, killedAt>>
searchVars == <<query, searched, searchOk, searchResults>>
rateVars == <<now, last_request_time, tpc, wake, attempt, prevOutcome, left, concurrent,
              prevReq, curReq, firstReq, nreq>>
searcherVars == <<callArgs, searcherPc, embedOutcome, daoOk, daoCalled, daoArgs, returned>>
chunkerVars == <<doc_text, chunkerPc, returned_chunks>>
cleanerVars == <<raw_text, cleanerPc, cleaned>>
fallbackVars == <<act_text, fallbackPc, act_chunks>>
restVars == <<cleanerVars, fallbackVars, calls>>
laterVars == <<rateVars, searcherVars, chunkerVars, restVars>>
notRate == <<storeVars, daoVars, embedVars, ingestVars, searchVars, searcherVars, chunkerVars,
             restVars>>
notSearcher == <<daoVars, embedVars, ingestVars, searchVars, rateVars, chunkerVars, restVars>>
notChunker == <<storeVars, daoVars, embedVars, ingestVars, searchVars, rateVars, searcherVars,
                restVars>>
notCleaner == <<storeVars, daoVars, embedVars, ingestVars, searchVars, rateVars, searcherVars,
                chunkerVars, fallbackVars, calls>>
notFallback == <<storeVars, daoVars, embedVars, ingestVars, searchVars, rateVars, searcherVars,
                 chunkerVars, cleanerVars, calls>>
notConcurrent == <<documents, daoVars, embedVars, ingestVars, searchVars, rateVars,
                   searcherVars, chunkerVars, cleanerVars, fallbackVars>>
vars == <<storeVars, daoVars, embedVars, ingestVars, searchVars, laterVars>>

None == "None"

\* ---------------------------------------------------------------- bounds
\* Longest batch handed to insert_chunks_batch directly.
MaxBatchLen == 2

\* ---------------------------------------------------------------- data
DocIds == {"d1", "d2"}
ChunkIds == {"d1_chunk_0", "d1_chunk_1", "d2_chunk_0"}
Titles == {"t1", "t2"}

\* chunk_id is f"{doc_id}_chunk_{index}": the owning document is part of the id.
DocOf(cid) == IF cid = "d2_chunk_0" THEN "d2" ELSE "d1"
TextOf(cid) == CASE cid = "d1_chunk_0" -> "a" [] cid = "d1_chunk_1" -> "b" [] OTHER -> "c"
TitleOf(cid) == IF cid = "d1_chunk_1" THEN "t2" ELSE "t1"

SectionPathOf(cid) ==
    CASE cid = "d1_chunk_0" -> <<"S1", "A1">>
      [] cid = "d1_chunk_1" -> <<"S1", "A2">>
      [] OTHER -> <<>>

\* The provider's vector for a text.  Vectors go by name; Components gives the floats.
Provider(text) == CASE text = "a" -> "vec_a" [] text = "b" -> "vec_b" [] OTHER -> "vec_c"
Components(v) ==
    CASE v = "vec_a" -> <<1, 0>>
      [] v = "vec_b" -> <<3, 4>>
      [] v = "vec_c" -> <<4, 3>>
      [] OTHER -> <<-1, 0>>

\* A chunk in the interchange format, as the chunker writes it: no embedding yet.
RawChunk(cid) ==
    [chunk_id |-> cid, doc_id |-> DocOf(cid), text |-> TextOf(cid),
     embedding |-> None, error |-> None,
     metadata |-> [title |-> TitleOf(cid), needs_ocr |-> None,
                   section_path |-> SectionPathOf(cid)]]

\* The same chunk, embedded.
Chunk(cid) == [RawChunk(cid) EXCEPT !.embedding = Provider(TextOf(cid))]

Range(s) == {s[k] : k \in DOMAIN s}
SeqsUpTo(S, n) == UNION {[1..m -> S] : m \in 0..n}
Distinct(s) == \A a, b \in DOMAIN s : a # b => s[a] # s[b]
Min(a, b) == IF a < b THEN a ELSE b

\* ---------------------------------------------------------------- VectorDAO
HasDoc(docs, d) == \E k \in DOMAIN docs : docs[k].doc_id = d
HasChunk(tbl, cid) == \E k \in DOMAIN tbl : tbl[k].chunk_id = cid

\* The parameter tuple of the INSERT: needs_ocr defaults to False.
DocumentRow(doc) ==
    [doc_id |-> doc.doc_id,
     title |-> doc.metadata.title,
     needs_ocr |-> IF doc.metadata.needs_ocr = None THEN "False" ELSE doc.metadata.needs_ocr,
     metadata |-> doc.metadata]

\* INSERT ... ON CONFLICT (doc_id) DO NOTHING: what a missing DO UPDATE would do.
UpsertDocument_KeepOld(docs, doc) ==
    IF HasDoc(docs, doc.doc_id) THEN docs ELSE Append(docs, DocumentRow(doc))

\* INSERT ... ON CONFLICT (doc_id) DO UPDATE SET <every field> = EXCLUDED.<field>
UpsertDocument(docs, doc) ==
    IF HasDoc(docs, doc.doc_id)
    THEN [k \in DOMAIN docs |->
            IF docs[k].doc_id = doc.doc_id THEN DocumentRow(doc) ELSE docs[k]]
    ELSE Append(docs, DocumentRow(doc))

\* insert_document(doc): True and the upsert, or False and nothing on a failure.
insert_document(docs, doc, dbOk) ==
    IF dbOk THEN [table |-> UpsertDocument(docs, doc), ret |-> TRUE]
    ELSE [table |-> docs, ret |-> FALSE]

\* The SELECT matching doc_id against the chunk_ids: nothing is found.
Existing_WrongColumn(tbl, batch) ==
    {tbl[k].doc_id : k \in DOMAIN tbl} \cap {batch[k].chunk_id : k \in DOMAIN batch}

\* SELECT chunk_id FROM chunks WHERE chunk_id = ANY(chunk_ids)
Existing(tbl, batch) ==
    {tbl[k].chunk_id : k \in DOMAIN tbl} \cap {batch[k].chunk_id : k \in DOMAIN batch}

\* A filter dropped from the batch insert: every chunk is taken as new.
NewChunks_NoFilter(batch, existing) == batch

\* new_chunks = [c for c in chunks if c["chunk_id"] not in existing]
NewChunks(batch, existing) == SelectSeq(batch, LAMBDA c : c.chunk_id \notin existing)

\* The parameter tuple of the chunk INSERT; chunk.get("embedding") is None when absent.
ChunkRow(c) ==
    [chunk_id |-> c.chunk_id, doc_id |-> c.doc_id, chunk_text |-> c.text,
     embedding |-> c.embedding, section_path |-> c.metadata.section_path]

\* The schema's constraints on a new chunk row: chunk_id PRIMARY KEY, doc_id
\* REFERENCES documents.
RowAccepted(tbl, docs, row) == ~HasChunk(tbl, row.chunk_id) /\ HasDoc(docs, row.doc_id)

\* for chunk in new_chunks: try: INSERT; successful += 1; except: log.  A failed
\* statement aborts the transaction, and every later statement of it fails too.
RECURSIVE InsertRows(_, _, _, _, _)
InsertRows(tbl, docs, rows, successful, aborted) ==
    IF rows = <<>> THEN [table |-> tbl, successful |-> successful, aborted |-> aborted]
    ELSE IF aborted THEN InsertRows(tbl, docs, Tail(rows), successful, TRUE)
    ELSE IF RowAccepted(tbl, docs, ChunkRow(Head(rows)))
         THEN InsertRows(Append(tbl, ChunkRow(Head(rows))), docs, Tail(rows),
                         successful + 1, FALSE)
         ELSE InsertRows(tbl, docs, Tail(rows), successful, TRUE)

\* What the database can do to one call: nothing, refuse the connection (or the
\* SELECT), or fail the COMMIT.
DbFaults == {"none", "connect", "commit"}

\* insert_chunks_batch(chunks): the table afterwards and the returned count.
\* COMMIT of an aborted transaction is a ROLLBACK and raises nothing.
insert_chunks_batch(tbl, docs, batch, fault) ==
    IF fault = "connect" THEN [table |-> tbl, ret |-> 0]
    ELSE LET new_chunks == NewChunks(batch, Existing(tbl, batch))
             r == InsertRows(tbl, docs, new_chunks, 0, FALSE)
         IN  IF new_chunks = <<>>
             THEN [table |-> tbl, ret |-> IF fault = "commit" THEN 0 ELSE Len(batch)]
             ELSE IF fault = "commit" THEN [table |-> tbl, ret |-> r.successful]
             ELSE [table |-> IF r.aborted THEN tbl ELSE r.table, ret |-> r.successful]

\* Whether the call met a storage failure: the connection or the COMMIT failed,
\* or an INSERT of the batch raised.
StorageFailed(tbl, docs, batch, fault) ==
    \/ fault # "none"
    \/ InsertRows(tbl, docs, NewChunks(batch, Existing(tbl, batch)), 0, FALSE).aborted

\* ---------------------------------------------------------------- search_similar
Dot(a, b) == a[1] * b[1] + a[2] * b[2]
Norm(a) == CHOOSE n \in 0..Dot(a, a) : n * n = Dot(a, a)

\* c.embedding <=> query_embedding: pgvector's cosine distance, in hundredths.
CosineDistance(u, v) ==
    100 - (100 * Dot(Components(u), Components(v)))
              \div (Norm(Components(u)) * Norm(Components(v)))

\* 1 - (c.embedding <=> query_embedding)
Similarity(row, query_embedding) == 100 - CosineDistance(row.embedding, query_embedding)

\* Python's truth value of an optional string: None and "" are false.
Truthy(x) == x # None /\ x # ""

\* The doc_id condition left out of the query.
DocFilter_Ignored(row, doc_id) == TRUE

\* if doc_id: query += " AND c.doc_id = %s"
DocFilter(row, doc_id) == Truthy(doc_id) => row.doc_id = doc_id

\* if section_path: query += " AND c.section_path @> %s"  (array containment;
\* None and [] are both false, and come as <<>>)
SectionFilter(row, section_path) ==
    section_path # <<>> => Range(section_path) \subseteq Range(row.section_path)

\* FROM chunks c JOIN documents d ON c.doc_id = d.doc_id WHERE ...
Matches(row, docs, q) ==
    /\ HasDoc(docs, row.doc_id)
    /\ row.embedding # None
    /\ DocFilter(row, q.doc_id)
    /\ SectionFilter(row, q.section_path)
    /\ Similarity(row, q.query_embedding) >= q.similarity_threshold

Orderings(S) ==
    {s \in [1..Cardinality(S) -> S] : \A a, b \in DOMAIN s : a # b => s[a] # s[b]}

\* The rows sorted by similarity, smallest first.
Ordered_Ascending(tbl, rows, query_embedding) ==
    {s \in Orderings(rows) :
        \A a, b \in DOMAIN s :
            a < b => Similarity(tbl[s[a]], query_embedding)
                        <= Similarity(tbl[s[b]], query_embedding)}

\* ORDER BY c.embedding <=> %s::vector: every order of the rows (given by their
\* positions in the table) that is non-decreasing in distance; ties fall either way.
Ordered(tbl, rows, query_embedding) ==
    {s \in Orderings(rows) :
        \A a, b \in DOMAIN s :
            a < b => CosineDistance(tbl[s[a]].embedding, query_embedding)
                        <= CosineDistance(tbl[s[b]].embedding, query_embedding)}

\* LIMIT %s
Limit(s, topk) == SubSeq(s, 1, Min(topk, Len(s)))

\* One element of results, from a row of the join.
ResultOf(row, docs, query_embedding) ==
    [chunk_id |-> row.chunk_id, doc_id |-> row.doc_id, text |-> row.chunk_text,
     section_path |-> row.section_path,
     document |-> [title |-> (CHOOSE d \in Range(docs) : d.doc_id = row.doc_id).title],
     similarity |-> Similarity(row, query_embedding)]

\* search_similar(...): the lists it can return.  A database failure, which a
\* negative LIMIT is too, is logged and gives [].
search_similar(tbl, docs, q, ok) ==
    IF ~ok \/ q.topk < 0 THEN {<<>>}
    ELSE {[k \in DOMAIN Limit(s, q.topk) |-> ResultOf(tbl[s[k]], docs, q.query_embedding)] :
            s \in Ordered(tbl, {k \in DOMAIN tbl : Matches(tbl[k], docs, q)},
                          q.query_embedding)}

\* ---------------------------------------------------------------- direct use of the DAO
DocMetadata == {[title |-> "t1", needs_ocr |-> None], [title |-> "t2", needs_ocr |-> "True"]}
DocArgs == [doc_id : DocIds, metadata : DocMetadata]

Batches == SeqsUpTo({Chunk(c) : c \in ChunkIds}, MaxBatchLen)

NoCall ==
    [op |-> "none", batch |-> <<>>, ret |-> 0, ok |-> TRUE, clean |-> TRUE,
     present |-> 0, added |-> 0, changed |-> FALSE, failed |-> FALSE]

EmptyStore == documents = <<>> /\ chunks = <<>>
NoDaoHistory == lastCall = NoCall /\ repeat = FALSE /\ lastDoc = [d \in DocIds |-> <<>>]
NoEmbedding ==
    /\ input = <<>> /\ embed_batch = 1 /\ i = 0
    /\ results = <<>> /\ requests = <<>> /\ outcomes = <<>>
NoIngest ==
    /\ pc = "idle" /\ batch_size = 1 /\ doc_todo = {} /\ j = 0 /\ passed = <<>>
    /\ docCalled = {} /\ docFailed = {} /\ runFailed = FALSE
    /\ kills = 0 /\ killedAt = -1

NoQuery ==
    [query_embedding |-> "vec_a", topk |-> 0, similarity_threshold |-> 0,
     doc_id |-> None, section_path |-> <<>>]
NoSearch == query = NoQuery /\ searched = FALSE /\ searchOk = TRUE /\ searchResults = <<>>

Tasks == {1, 2}
NoRate ==
    /\ now = 0 /\ last_request_time = 0
    /\ tpc = [t \in Tasks |-> "done"] /\ wake = [t \in Tasks |-> 0]
    /\ attempt = [t \in Tasks |-> 1] /\ prevOutcome = [t \in Tasks |-> "none"]
    /\ left = [t \in Tasks |-> 0] /\ concurrent = FALSE
    /\ prevReq = -1 /\ curReq = -1 /\ firstReq = -1 /\ nreq = 0
ArgNames == {"topk", "similarity_threshold", "doc_id", "section_path"}
NoArgs ==
    [query |-> "a", topk |-> 0, similarity_threshold |-> 0, doc_id |-> None,
     section_path |-> <<>>, none |-> ArgNames]
NoDaoArgs ==
    [query_embedding |-> None, topk |-> 0, similarity_threshold |-> 0, doc_id |-> None,
     section_path |-> <<>>, none |-> {}]
NoSearcher ==
    /\ callArgs = NoArgs /\ searcherPc = "returned" /\ embedOutcome = "ok" /\ daoOk = TRUE
    /\ daoCalled = FALSE /\ daoArgs = NoDaoArgs /\ returned = <<>>
NoChunker == doc_text = <<>> /\ chunkerPc = "returned" /\ returned_chunks = <<>>
NoResult == [text |-> <<>>, reference_block |-> <<>>, main_lines |-> <<>>,
             reference_lines |-> <<>>]
NoCleaner == raw_text = <<>> /\ cleanerPc = "returned" /\ cleaned = NoResult
NoFallback == act_text = <<>> /\ fallbackPc = "returned" /\ act_chunks = <<>>
NoConcurrent == calls = <<>>
NoRest == NoCleaner /\ NoFallback /\ NoConcurrent
NoLater == NoRate /\ NoSearcher /\ NoChunker /\ NoRest

InitStore == EmptyStore /\ NoDaoHistory /\ NoEmbedding /\ NoIngest /\ NoSearch /\ NoLater

InsertDocument(doc, dbOk) ==
    LET r == insert_document(documents, doc, dbOk) IN
    /\ documents' = r.table
    /\ lastDoc' = IF r.ret THEN [lastDoc EXCEPT ![doc.doc_id] = <<doc>>] ELSE lastDoc
    /\ lastCall' = [NoCall EXCEPT !.op = "insert_document", !.ok = r.ret,
                                  !.changed = /\ HasDoc(documents, doc.doc_id)
                                              /\ r.table # documents]
    /\ repeat' = FALSE
    /\ UNCHANGED laterVars
    /\ UNCHANGED <<chunks, embedVars, ingestVars, searchVars>>

InsertChunksBatch(batch, fault) ==
    LET r == insert_chunks_batch(chunks, documents, batch, fault)
        clean == /\ fault = "none"
                 /\ Distinct([k \in DOMAIN batch |-> batch[k].chunk_id])
                 /\ \A k \in DOMAIN batch : HasDoc(documents, batch[k].doc_id)
    IN
    /\ chunks' = r.table
    /\ lastCall' = [op |-> "insert_chunks_batch", batch |-> batch, ret |-> r.ret,
                    ok |-> TRUE, clean |-> clean,
                    present |-> Cardinality({k \in DOMAIN batch :
                                                HasChunk(chunks, batch[k].chunk_id)}),
                    added |-> Len(r.table) - Len(chunks),
                    changed |-> FALSE,
                    failed |-> StorageFailed(chunks, documents, batch, fault)]
    /\ repeat' = /\ lastCall.op = "insert_chunks_batch"
                 /\ lastCall.batch = batch
                 /\ lastCall.clean
                 /\ clean
    /\ UNCHANGED laterVars
    /\ UNCHANGED <<documents, lastDoc, embedVars, ingestVars, searchVars>>

NextStore ==
    \/ \E doc \in DocArgs, dbOk \in BOOLEAN : InsertDocument(doc, dbOk)
    \/ \E batch \in Batches, fault \in DbFaults : InsertChunksBatch(batch, fault)

SpecStore == InitStore /\ [][NextStore]_vars

\* ---------------------------------------------------------------- claims on the DAO
RowsOfChunk(cid) == {k \in DOMAIN chunks : chunks[k].chunk_id = cid}
RowsOfDoc(d) == {k \in DOMAIN documents : documents[k].doc_id = d}

\* C17: after a storage failure during insert_chunks_batch the returned count
\* is the number of rows this call committed, and is at most the number of the
\* batch's rows present afterwards.
C17_FailedBatchReturnsCommitted ==
    (lastCall.op = "insert_chunks_batch" /\ lastCall.failed) =>
        /\ lastCall.ret = lastCall.added
        /\ lastCall.ret <= Cardinality({k \in DOMAIN lastCall.batch :
                                           HasChunk(chunks, lastCall.batch[k].chunk_id)})

\* C1: a batch of pairwise-distinct chunk_ids whose documents exist, inserted twice in
\* succession with no storage failure, leaves exactly one row per chunk_id of the
\* batch, the second call adds no row, and the second call returns the batch size.
C1_IdempotentBatch ==
    repeat =>
        /\ \A k \in DOMAIN lastCall.batch :
              Cardinality(RowsOfChunk(lastCall.batch[k].chunk_id)) = 1
        /\ lastCall.added = 0
        /\ lastCall.present = Len(lastCall.batch)
        /\ lastCall.ret = Len(lastCall.batch)

C1_Witness ==
    /\ repeat
    /\ Len(lastCall.batch) >= 2
    /\ Len(chunks) = Len(lastCall.batch)

\* C2: whatever mix of stored and new chunk_ids a batch holds, a call without failure
\* returns the number already present plus the number newly inserted, the batch size.
C2_ReturnsPresentPlusInserted ==
    (lastCall.op = "insert_chunks_batch" /\ lastCall.clean) =>
        /\ lastCall.ret = lastCall.present + lastCall.added
        /\ lastCall.ret = Len(lastCall.batch)

\* C3: the documents table holds at most one row per doc_id, and that row carries
\* the fields of the latest successful insert_document for that doc_id.
C3_DocumentUpsert ==
    \A d \in DocIds :
        /\ Cardinality(RowsOfDoc(d)) <= 1
        /\ lastDoc[d] = <<>> => RowsOfDoc(d) = {}
        /\ lastDoc[d] # <<>> =>
              \E k \in RowsOfDoc(d) :
                  /\ documents[k].title = lastDoc[d][1].metadata.title
                  /\ documents[k].metadata = lastDoc[d][1].metadata
                  /\ documents[k].needs_ocr \in {"True", "False"}
                  /\ documents[k].needs_ocr = "True" <=>
                        lastDoc[d][1].metadata.needs_ocr = "True"

C3_Witness ==
    /\ lastCall.op = "insert_document"
    /\ lastCall.ok
    /\ lastCall.changed
    /\ Len(documents) = 2

\* ---------------------------------------------------------------- EmbeddingsGenerator
\* Largest batch size, of the generator and of the storage loop.
MaxBatch == 2

\* chunks[i:i + batch_size], with i counted from 0
BatchAt(seq, start, size) == SubSeq(seq, start + 1, Min(start + size, Len(seq)))

\* texts = [chunk["text"] for chunk in batch]
Texts(batch) == [k \in DOMAIN batch |-> batch[k].text]

\* What the provider answers to a request: one vector per text in input order,
\* or (a "short" response) the vectors of all texts but the last.
Response(texts, outcome) ==
    IF outcome = "ok" THEN [k \in DOMAIN texts |-> Provider(texts[k])]
    ELSE [k \in 1..(Len(texts) - 1) |-> Provider(texts[k])]

\* The vectors paired with the batch back to front.
ZipEmbeddings_Reversed(batch, embeddings) ==
    [k \in 1..Min(Len(batch), Len(embeddings)) |->
        [batch[k] EXCEPT !.embedding = embeddings[Len(embeddings) + 1 - k]]]

\* for chunk, embedding in zip(batch, embeddings): chunk["embedding"] = embedding
ZipEmbeddings(batch, embeddings) ==
    [k \in 1..Min(Len(batch), Len(embeddings)) |->
        [batch[k] EXCEPT !.embedding = embeddings[k]]]

\* Only the first chunk of a failed batch is reported.
MarkFailed_FirstOnly(batch) ==
    [k \in 1..Min(1, Len(batch)) |-> [batch[k] EXCEPT !.embedding = None, !.error = "err"]]

\* for chunk in batch: chunk["embedding"] = None; chunk["error"] = str(e)
MarkFailed(batch) ==
    [k \in DOMAIN batch |-> [batch[k] EXCEPT !.embedding = None, !.error = "err"]]

ProviderOutcomes == {"ok", "short", "fail"}

\* One turn of the loop of generate_embeddings: the batch at i, its request, and
\* the chunks it appends to results.
GenerateBatch(outcome) ==
    LET batch == BatchAt(input, i, embed_batch)
        texts == Texts(batch)
    IN
    /\ pc = "embed"
    /\ i < Len(input)
    /\ requests' = Append(requests, texts)
    /\ outcomes' = Append(outcomes, outcome)
    /\ results' = results \o (IF outcome = "fail" THEN MarkFailed(batch)
                              ELSE ZipEmbeddings(batch, Response(texts, outcome)))
    /\ i' = i + embed_batch
    /\ UNCHANGED laterVars
    /\ UNCHANGED <<input, embed_batch, storeVars, daoVars, ingestVars, searchVars>>

\* ---------------------------------------------------------------- process_chunks
\* How often a run may be interrupted and repeated.
MaxKills == 1

\* Nothing is filtered: every embedded chunk counts as successful.
SuccessfulChunks_NoFilter(embedded) == embedded

\* successful_chunks = [c for c in embedded_chunks if c.get("embedding") is not None]
SuccessfulChunks(embedded) == SelectSeq(embedded, LAMBDA c : c.embedding # None)

\* Only the document of the first chunk is looked at.
DocIdsOf_FirstOnly(successful) ==
    IF successful = <<>> THEN {} ELSE {successful[1].doc_id}

\* doc_ids = set(c["doc_id"] for c in successful_chunks)
DocIdsOf(successful) == {successful[k].doc_id : k \in DOMAIN successful}

\* chunk = next(c for c in successful_chunks if c["doc_id"] == doc_id), and the
\* document record built from its metadata
DocRecord(successful, d) ==
    LET first == CHOOSE k \in DOMAIN successful :
                    /\ successful[k].doc_id = d
                    /\ \A m \in 1..(k - 1) : successful[m].doc_id # d
    IN  [doc_id |-> d, metadata |-> successful[first].metadata]

successful_chunks == SuccessfulChunks(results)

\* Where the run stands once the document loop has nothing left.
AfterDocs(todo) ==
    IF todo # {} THEN "docs"
    ELSE IF successful_chunks = <<>> THEN "done" ELSE "chunks"

\* generate_embeddings has returned: filter, and enter the document loop.
StartStorage ==
    /\ pc = "embed"
    /\ i >= Len(input)
    /\ doc_todo' = DocIdsOf(successful_chunks)
    /\ pc' = AfterDocs(doc_todo')
    /\ j' = 0
    /\ UNCHANGED laterVars
    /\ UNCHANGED <<storeVars, daoVars, embedVars, batch_size, passed, docCalled,
                   docFailed, runFailed, kills, killedAt, searchVars>>

\* One turn of "for doc_id in doc_ids": a set is walked in no particular order.
StoreDocument(d, dbOk) ==
    LET r == insert_document(documents, DocRecord(successful_chunks, d), dbOk) IN
    /\ pc = "docs"
    /\ d \in doc_todo
    /\ documents' = r.table
    /\ doc_todo' = doc_todo \ {d}
    /\ docCalled' = docCalled \cup {d}
    /\ docFailed' = IF r.ret THEN docFailed ELSE docFailed \cup {d}
    /\ runFailed' = (runFailed \/ ~dbOk)
    /\ pc' = AfterDocs(doc_todo')
    /\ UNCHANGED laterVars
    /\ UNCHANGED <<chunks, daoVars, embedVars, batch_size, j, passed, kills, killedAt,
                   searchVars>>

\* One turn of "for i in range(0, len(successful_chunks), batch_size)".
StoreBatch(fault) ==
    LET batch == BatchAt(successful_chunks, j, batch_size)
        r == insert_chunks_batch(chunks, documents, batch, fault)
    IN
    /\ pc = "chunks"
    /\ j < Len(successful_chunks)
    /\ passed' = batch
    /\ chunks' = r.table
    /\ j' = j + batch_size
    /\ runFailed' = (runFailed \/ fault # "none")
    /\ pc' = IF j' >= Len(successful_chunks) THEN "done" ELSE "chunks"
    /\ UNCHANGED laterVars
    /\ UNCHANGED <<documents, daoVars, embedVars, batch_size, doc_todo, docCalled,
                   docFailed, kills, killedAt, searchVars>>

\* The process is killed between two calls of the storage phase and the script is
\* run again on the same embedded chunks, with whatever --batch-size.
KillAndRerun(size) ==
    /\ pc \in {"docs", "chunks"}
    /\ kills < MaxKills
    /\ kills' = kills + 1
    /\ killedAt' = Len(chunks)
    /\ batch_size' = size
    /\ doc_todo' = DocIdsOf(successful_chunks)
    /\ pc' = AfterDocs(doc_todo')
    /\ j' = 0
    /\ passed' = <<>>
    /\ docCalled' = {}
    /\ docFailed' = {}
    /\ runFailed' = FALSE
    /\ UNCHANGED laterVars
    /\ UNCHANGED <<storeVars, daoVars, embedVars, searchVars>>

\* The input file: chunks of pairwise-distinct chunk_ids, in any order.
Inputs == {s \in SeqsUpTo(ChunkIds, Cardinality(ChunkIds)) : Distinct(s)}

InitIngest ==
    /\ EmptyStore
    /\ NoDaoHistory
    /\ \E s \in Inputs : input = [k \in DOMAIN s |-> RawChunk(s[k])]
    /\ embed_batch \in 1..MaxBatch
    /\ batch_size \in 1..MaxBatch
    /\ i = 0 /\ results = <<>> /\ requests = <<>> /\ outcomes = <<>>
    /\ pc = "embed" /\ doc_todo = {} /\ j = 0 /\ passed = <<>>
    /\ docCalled = {} /\ docFailed = {} /\ runFailed = FALSE
    /\ kills = 0 /\ killedAt = -1
    /\ NoSearch /\ NoLater

NextIngest ==
    \/ \E outcome \in ProviderOutcomes : GenerateBatch(outcome)
    \/ StartStorage
    \/ \E d \in DocIds, dbOk \in BOOLEAN : StoreDocument(d, dbOk)
    \/ \E fault \in {"none", "connect"} : StoreBatch(fault)
    \/ \E size \in 1..MaxBatch : KillAndRerun(size)

SpecIngest == InitIngest /\ [][NextIngest]_vars

\* ---------------------------------------------------------------- claims on ingestion
NumBatches == (Len(input) + embed_batch - 1) \div embed_batch
EmbeddingReturned == pc \in {"docs", "chunks", "done"}

\* C4: whatever embedding batches failed, no chunk with a null embedding is handed
\* to insert_chunks_batch, and no row of chunks has a null embedding.
C4_NoNullEmbeddingStored ==
    /\ \A k \in DOMAIN passed : passed[k].embedding # None
    /\ \A k \in DOMAIN chunks : chunks[k].embedding # None

C4_Witness ==
    /\ pc = "done"
    /\ \E k \in DOMAIN outcomes : outcomes[k] = "fail"
    /\ \E k \in DOMAIN results : results[k].embedding = None
    /\ passed # <<>>
    /\ chunks # <<>>

FirstChunkOf(d) ==
    LET succ == SelectSeq(results, LAMBDA c : c.embedding # None)
        first == CHOOSE k \in DOMAIN succ :
                    succ[k].doc_id = d /\ \A m \in 1..(k - 1) : succ[m].doc_id # d
    IN  succ[first]
ExpectedChunkRows ==
    {[chunk_id |-> c.chunk_id, doc_id |-> c.doc_id, chunk_text |-> c.text,
      embedding |-> c.embedding, section_path |-> c.metadata.section_path] : c \in {r \in Range(results) : r.embedding # None}}
ExpectedDocumentRows ==
    {[doc_id |-> d, title |-> FirstChunkOf(d).metadata.title, needs_ocr |-> "False",
      metadata |-> FirstChunkOf(d).metadata] :
        d \in {r.doc_id : r \in {x \in Range(results) : x.embedding # None}}}

\* C6: a storage phase interrupted after any prefix of its calls and repeated to
\* completion on the same embedded chunks ends with the documents and chunks one
\* uninterrupted run stores.
C6_RerunConverges ==
    (pc = "done" /\ ~runFailed) =>
        /\ Range(chunks) = ExpectedChunkRows
        /\ Len(chunks) = Cardinality(ExpectedChunkRows)
        /\ Range(documents) = ExpectedDocumentRows
        /\ Len(documents) = Cardinality(ExpectedDocumentRows)

C6_Witness ==
    /\ pc = "done"
    /\ ~runFailed
    /\ kills >= 1
    /\ killedAt >= 1
    /\ killedAt < Len(chunks)
    /\ Len(documents) = 2

\* C9: when every provider call succeeds, N chunks with batch size B make
\* ceil(N/B) requests, the k-th with the texts of chunks k*B .. min((k+1)*B, N)-1
\* in input order, and the i-th result is the i-th input chunk with the vector
\* the provider returned for its text.
C9_BatchingAndOrder ==
    (EmbeddingReturned /\ \A k \in DOMAIN outcomes : outcomes[k] = "ok") =>
        /\ Len(requests) = NumBatches
        /\ \A k \in DOMAIN requests :
              LET lo == (k - 1) * embed_batch
                  hi == Min(k * embed_batch, Len(input))
              IN  /\ Len(requests[k]) = hi - lo
                  /\ \A m \in 1..(hi - lo) : requests[k][m] = input[lo + m].text
        /\ \A k \in 1..(NumBatches - 1) : Len(requests[k]) = embed_batch
        /\ Len(results) = Len(input)
        /\ \A n \in DOMAIN results :
              results[n] = [input[n] EXCEPT !.embedding = Provider(input[n].text)]

C9_Witness ==
    /\ EmbeddingReturned
    /\ \A k \in DOMAIN outcomes : outcomes[k] = "ok"
    /\ Len(input) = 3
    /\ embed_batch = 2
    /\ Len(requests) = 2

\* The input chunks of the k-th batch.
ChunksOfBatch(k) ==
    {input[n] : n \in ((k - 1) * embed_batch + 1)..Min(k * embed_batch, Len(input))}

\* C10: whichever batches fail, every batch is attempted and generate_embeddings
\* returns; every chunk of a failed batch comes back with embedding None and an
\* error string, every chunk of a batch that succeeded with its vector.
C10_FailedBatchIsolated ==
    EmbeddingReturned =>
        /\ Len(outcomes) = NumBatches
        /\ \A k \in DOMAIN outcomes : \A c \in ChunksOfBatch(k) :
              /\ outcomes[k] = "fail" =>
                    \E n \in DOMAIN results :
                        /\ results[n].chunk_id = c.chunk_id
                        /\ results[n].embedding = None
                        /\ results[n].error # None
              /\ outcomes[k] = "ok" =>
                    \E n \in DOMAIN results :
                        /\ results[n].chunk_id = c.chunk_id
                        /\ results[n].embedding = Provider(c.text)
                        /\ results[n].error = None

C10_Witness ==
    /\ EmbeddingReturned
    /\ Len(outcomes) = 3
    /\ outcomes[1] = "fail"
    /\ outcomes[2] = "ok"
    /\ outcomes[3] = "fail"

\* ---------------------------------------------------------------- searching a store
\* Largest topk asked for.
MaxTopK == 3

ChunkIdOrder == <<"d1_chunk_0", "d1_chunk_1", "d2_chunk_0">>

\* A chunks table: each chunk absent, stored without embedding, or stored with one.
StoredChunks(f) ==
    LET all == [k \in DOMAIN ChunkIdOrder |->
                    ChunkRow([RawChunk(ChunkIdOrder[k]) EXCEPT !.embedding = f[k]])]
    IN  SelectSeq(all, LAMBDA r : r.embedding # "absent")
SearchStores ==
    {StoredChunks(f) : f \in [DOMAIN ChunkIdOrder -> {"absent", None, "vec_a", "vec_b", "vec_e"}]}

Queries ==
    [query_embedding : {"vec_a", "vec_c"},
     topk : -1..MaxTopK,
     similarity_threshold : {0, 70, 90},
     doc_id : {None, "", "d1"},
     section_path : {<<>>, <<"S1">>, <<"A2", "S1">>}]

InitSearch ==
    /\ documents = [k \in 1..2 |->
          DocumentRow([doc_id |-> IF k = 1 THEN "d1" ELSE "d2",
                       metadata |-> [title |-> IF k = 1 THEN "t1" ELSE "t2",
                                     needs_ocr |-> None]])]
    /\ chunks \in SearchStores
    /\ query \in Queries
    /\ searched = FALSE /\ searchOk = TRUE /\ searchResults = <<>>
    /\ NoDaoHistory /\ NoEmbedding /\ NoIngest /\ NoLater

SearchSimilar(ok) ==
    /\ searchResults' \in search_similar(chunks, documents, query, ok)
    /\ searched' = TRUE
    /\ searchOk' = ok
    /\ UNCHANGED laterVars
    /\ UNCHANGED <<query, storeVars, daoVars, embedVars, ingestVars>>

NextSearch == \E ok \in BOOLEAN : SearchSimilar(ok)

SpecSearch == InitSearch /\ [][NextSearch]_vars

\* ---------------------------------------------------------------- claims on search
\* C7: the list search_similar returns is non-increasing in similarity and every
\* element of it has similarity >= similarity_threshold.
C7_OrderedAboveThreshold ==
    searched =>
        /\ \A k \in 1..(Len(searchResults) - 1) :
              searchResults[k].similarity >= searchResults[k + 1].similarity
        /\ \A k \in DOMAIN searchResults :
              searchResults[k].similarity >= query.similarity_threshold

C7_Witness ==
    /\ searched
    /\ Len(searchResults) >= 2
    /\ searchResults[1].similarity > searchResults[2].similarity
    /\ query.similarity_threshold > 0
    /\ \E k \in DOMAIN chunks :
          /\ chunks[k].embedding # None
          /\ Similarity(chunks[k], query.query_embedding) < query.similarity_threshold

\* The stored chunks a query asks for: embedded, of the document asked for (when one
\* is), holding every element of the section path asked for, similar enough.
Qualifying ==
    {k \in DOMAIN chunks :
        /\ chunks[k].embedding # None
        /\ (query.doc_id \in {None, ""} \/ chunks[k].doc_id = query.doc_id)
        /\ \A e \in Range(query.section_path) : e \in Range(chunks[k].section_path)
        /\ Similarity(chunks[k], query.query_embedding) >= query.similarity_threshold}

Returned == {k \in DOMAIN chunks :
                \E n \in DOMAIN searchResults : searchResults[n].chunk_id = chunks[k].chunk_id}

\* C8: search_similar returns exactly min(topk, q) rows, q the number of qualifying
\* chunks; every row is a qualifying chunk, no chunk twice; and no qualifying chunk
\* left out is strictly more similar than one returned.
C8_TopKOfQualifying ==
    (searched /\ searchOk /\ query.topk >= 0) =>
        /\ Len(searchResults) = Min(query.topk, Cardinality(Qualifying))
        /\ Cardinality(Returned) = Len(searchResults)
        /\ Returned \subseteq Qualifying
        /\ \A k \in DOMAIN searchResults :
              \E r \in Returned :
                  /\ chunks[r].chunk_id = searchResults[k].chunk_id
                  /\ searchResults[k].similarity
                        = Similarity(chunks[r], query.query_embedding)
        /\ \A o \in Qualifying \ Returned : \A r \in Returned :
              Similarity(chunks[o], query.query_embedding)
                  <= Similarity(chunks[r], query.query_embedding)

C8_Witness ==
    /\ searched /\ searchOk
    /\ Len(chunks) = 3
    /\ query.topk = 3
    /\ query.similarity_threshold = 70
    /\ Cardinality(Qualifying) = 2
    /\ Len(searchResults) = 2
    /\ searchResults[1].similarity > searchResults[2].similarity

(***************************************************************************)
(* EmbeddingsGenerator._generate_batch: the rate limiter and the retry     *)
(* decorator.  Time is counted in ticks of one second.                     *)
(***************************************************************************)
MAX_RETRIES == 3
BackoffWait == 4
MinInterval == 2
MaxTime == 10
MaxBatchesPerTask == 2

\* What one provider request can end in: an embeddings response, or an
\* exception.  RateLimitError and AuthenticationError are subclasses of
\* APIStatusError, itself a subclass of APIError; "other" is any exception
\* outside that hierarchy.
RequestOutcomes == {"ok", "rate_limit", "api_error", "auth", "other"}

ExceptionClasses(outcome) ==
    CASE outcome = "rate_limit" -> {"RateLimitError", "APIStatusError", "APIError"}
      [] outcome = "auth"       -> {"AuthenticationError", "APIStatusError", "APIError"}
      [] outcome = "api_error"  -> {"APIError"}
      [] outcome = "other"      -> {"Exception"}
      [] OTHER                  -> {}

\* retry_if_exception_type((RateLimitError, APIError))
RetryIf_AnyException(outcome) == ExceptionClasses(outcome) # {}

RetryIf(outcome) == ExceptionClasses(outcome) \cap {"RateLimitError", "APIError"} # {}

\* stop_after_attempt(settings.MAX_RETRIES)
StopAfterAttempt(n) == n >= MAX_RETRIES

\* _wait_for_rate_limit: how long to sleep, 0 when no sleep is needed
SleepFor_Half(current_time, last) ==
    IF current_time - last < MinInterval THEN (MinInterval - (current_time - last)) \div 2
    ELSE 0

SleepFor(current_time, last) ==
    IF current_time - last < MinInterval THEN MinInterval - (current_time - last) ELSE 0

\* the statements after the sleep: stamp the time, then call the provider
SendRequest(t) ==
    /\ last_request_time' = now
    /\ tpc' = [tpc EXCEPT ![t] = "inflight"]
    /\ prevReq' = curReq
    /\ curReq' = now
    /\ firstReq' = IF nreq = 0 THEN now ELSE firstReq
    /\ nreq' = nreq + 1
    /\ UNCHANGED wake

\* _generate_batch is entered: _wait_for_rate_limit runs up to its await
EnterGenerateBatch(t) ==
    IF SleepFor(now, last_request_time) > 0
    THEN /\ tpc' = [tpc EXCEPT ![t] = "sleep"]
         /\ wake' = [wake EXCEPT ![t] = now + SleepFor(now, last_request_time)]
         /\ UNCHANGED <<last_request_time, prevReq, curReq, firstReq, nreq>>
    ELSE SendRequest(t)

\* generate_embeddings starts on its first batch
StartTask(t) ==
    /\ tpc[t] = "idle"
    /\ EnterGenerateBatch(t)
    /\ UNCHANGED <<now, attempt, prevOutcome, left, concurrent>>
    /\ UNCHANGED notRate

\* asyncio.sleep in _wait_for_rate_limit returns
WakeUp(t) ==
    /\ tpc[t] = "sleep"
    /\ now >= wake[t]
    /\ SendRequest(t)
    /\ UNCHANGED <<now, attempt, prevOutcome, left, concurrent>>
    /\ UNCHANGED notRate

\* the provider answers; the retry decorator decides what follows
Respond(t, outcome) ==
    /\ tpc[t] = "inflight"
    /\ IF RetryIf(outcome) /\ ~StopAfterAttempt(attempt[t])
       THEN /\ tpc' = [tpc EXCEPT ![t] = "backoff"]
            /\ wake' = [wake EXCEPT ![t] = now + BackoffWait]
            /\ prevOutcome' = [prevOutcome EXCEPT ![t] = outcome]
            /\ UNCHANGED <<attempt, left, last_request_time, prevReq, curReq, firstReq, nreq>>
       ELSE /\ attempt' = [attempt EXCEPT ![t] = 1]
            /\ prevOutcome' = [prevOutcome EXCEPT ![t] = "none"]
            /\ left' = [left EXCEPT ![t] = left[t] - 1]
            /\ IF left[t] > 1
               THEN EnterGenerateBatch(t)
               ELSE /\ tpc' = [tpc EXCEPT ![t] = "done"]
                    /\ UNCHANGED <<wake, last_request_time, prevReq, curReq, firstReq, nreq>>
    /\ UNCHANGED <<now, concurrent>>
    /\ UNCHANGED notRate

\* the wait before a retry is over: _generate_batch is called again
Retry(t) ==
    /\ tpc[t] = "backoff"
    /\ now >= wake[t]
    /\ attempt' = [attempt EXCEPT ![t] = attempt[t] + 1]
    /\ EnterGenerateBatch(t)
    /\ UNCHANGED <<now, prevOutcome, left, concurrent>>
    /\ UNCHANGED notRate

Tick ==
    /\ now < MaxTime
    /\ now' = now + 1
    /\ UNCHANGED <<last_request_time, tpc, wake, attempt, prevOutcome, left, concurrent,
                   prevReq, curReq, firstReq, nreq>>
    /\ UNCHANGED notRate

InitRate ==
    /\ now = MinInterval
    /\ last_request_time = 0
    /\ concurrent \in BOOLEAN
    /\ left \in [Tasks -> 0..MaxBatchesPerTask]
    /\ left[1] > 0
    /\ concurrent = (left[2] > 0)
    /\ tpc = [t \in Tasks |-> IF left[t] > 0 THEN "idle" ELSE "done"]
    /\ wake = [t \in Tasks |-> 0]
    /\ attempt = [t \in Tasks |-> 1]
    /\ prevOutcome = [t \in Tasks |-> "none"]
    /\ prevReq = -1 /\ curReq = -1 /\ firstReq = -1 /\ nreq = 0
    /\ EmptyStore /\ NoDaoHistory /\ NoEmbedding /\ NoIngest /\ NoSearch /\ NoSearcher
    /\ NoChunker /\ NoRest

NextRate ==
    \/ \E t \in Tasks : StartTask(t)
    \/ \E t \in Tasks : WakeUp(t)
    \/ \E t \in Tasks, outcome \in RequestOutcomes : Respond(t, outcome)
    \/ \E t \in Tasks : Retry(t)
    \/ Tick

SpecRate == InitRate /\ [][NextRate]_vars

\* C11: a batch never gets more than MAX_RETRIES provider requests, and a
\* request after the first is made only when the previous request of the
\* same batch failed with a rate-limit or API error; a success or an error
\* of another kind is followed by no further request for the batch.
C11_BoundedRetries ==
    \A t \in Tasks :
        /\ attempt[t] <= MAX_RETRIES
        /\ attempt[t] > 1 =>
              "APIError" \in ExceptionClasses(prevOutcome[t])
        /\ prevOutcome[t] \notin {"ok", "other"}

C11_Witness ==
    \E t \in Tasks : attempt[t] = MAX_RETRIES /\ tpc[t] = "inflight"

\* C12: the three error classes are treated differently: a rate-limit error
\* is retried, another API error is retried with fewer attempts, and an
\* authentication error is never followed by another request.
C12_ErrorClasses ==
    \A t \in Tasks :
        attempt[t] > 1 =>
            /\ prevOutcome[t] # "auth"
            /\ prevOutcome[t] = "api_error" => attempt[t] < MAX_RETRIES

\* C13: when a single generate_embeddings run uses the generator, any two
\* consecutive provider requests, first attempts and retries alike, are at
\* least MinInterval apart, so n requests span at least (n-1)*MinInterval.
C13_SequentialSpacing ==
    ~concurrent =>
        /\ prevReq >= 0 => curReq - prevReq >= MinInterval
        /\ nreq > 0 => curReq - firstReq >= (nreq - 1) * MinInterval

C13_Witness ==
    /\ ~concurrent /\ nreq >= 3
    /\ attempt[1] = 2 /\ left[1] = 1 /\ tpc[1] = "inflight"

\* C14: when several generate_embeddings calls share the generator, under
\* every interleaving any two provider requests are at least MinInterval
\* apart.
C14_ConcurrentSpacing ==
    (concurrent /\ prevReq >= 0) => curReq - prevReq >= MinInterval

(***************************************************************************)
(* Searcher.search.  An argument the caller leaves out, or passes as None, *)
(* has its name in the field none of the arguments.                        *)
(***************************************************************************)
TOPK == 10
SIMILARITY_THRESHOLD == 70

\* x or default, for a number x that may be None
OrDefault(isNone, x, default) == IF isNone \/ x = 0 THEN default ELSE x

\* embedded = await self.embeddings_gen.generate_embeddings([{"text": query}])
QueryChunks(text) == <<[text |-> text, embedding |-> None, error |-> None]>>

GenerateQueryEmbedding(text, outcome) ==
    IF outcome = "fail" THEN MarkFailed(QueryChunks(text))
    ELSE ZipEmbeddings(QueryChunks(text), Response(Texts(QueryChunks(text)), outcome))

\* The check of the embedding left out.
EmbeddingMissing_EmptyOnly(embedded) == Len(embedded) = 0

\* not embedded or not embedded[0].get("embedding")
EmbeddingMissing(embedded) == Len(embedded) = 0 \/ embedded[1].embedding = None

\* the keyword arguments of self.dao.search_similar(...)
SearchSimilarArgs(a, embedded) ==
    [query_embedding |-> embedded[1].embedding,
     topk |-> OrDefault("topk" \in a.none, a.topk, TOPK),
     similarity_threshold |->
        OrDefault("similarity_threshold" \in a.none, a.similarity_threshold,
                  SIMILARITY_THRESHOLD),
     doc_id |-> a.doc_id,
     section_path |-> a.section_path,
     none |-> a.none \cap {"doc_id", "section_path"}]

CallerArgs ==
    {a \in [query : {"a", "c"},
            topk : 0..MaxTopK,
            similarity_threshold : {0, 70, 90},
            doc_id : {None, "", "d1"},
            section_path : {<<>>, <<"S1">>},
            none : SUBSET ArgNames] :
        /\ "topk" \in a.none => a.topk = 0
        /\ "similarity_threshold" \in a.none => a.similarity_threshold = 0
        /\ "doc_id" \in a.none <=> a.doc_id = None
        /\ "section_path" \in a.none => a.section_path = <<>>}

SearcherStores ==
    {StoredChunks(f) : f \in [DOMAIN ChunkIdOrder -> {"absent", "vec_a", "vec_b"}]}

InitSearcher ==
    /\ documents = [k \in 1..2 |->
          DocumentRow([doc_id |-> IF k = 1 THEN "d1" ELSE "d2",
                       metadata |-> [title |-> IF k = 1 THEN "t1" ELSE "t2",
                                     needs_ocr |-> None]])]
    /\ chunks \in SearcherStores
    /\ callArgs \in CallerArgs
    /\ searcherPc = "ready" /\ embedOutcome = "ok" /\ daoOk = TRUE
    /\ daoCalled = FALSE /\ daoArgs = NoDaoArgs /\ returned = <<>>
    /\ NoDaoHistory /\ NoEmbedding /\ NoIngest /\ NoSearch /\ NoRate /\ NoChunker
    /\ NoRest

Search(outcome, ok) ==
    LET embedded == GenerateQueryEmbedding(callArgs.query, outcome) IN
    /\ searcherPc = "ready"
    /\ searcherPc' = "returned"
    /\ embedOutcome' = outcome
    /\ daoOk' = ok
    /\ IF EmbeddingMissing(embedded)
       THEN /\ returned' = <<>>
            /\ UNCHANGED <<daoCalled, daoArgs>>
       ELSE /\ daoCalled' = TRUE
            /\ daoArgs' = SearchSimilarArgs(callArgs, embedded)
            /\ returned' \in search_similar(chunks, documents, daoArgs', ok)
    /\ UNCHANGED <<callArgs, storeVars>>
    /\ UNCHANGED notSearcher

NextSearcher == \E outcome \in ProviderOutcomes, ok \in BOOLEAN : Search(outcome, ok)

SpecSearcher == InitSearcher /\ [][NextSearcher]_vars

\* C15: when the query's embedding could not be obtained, Searcher.search
\* returns [] and does not call search_similar; when the store's query fails
\* it returns [].
C15_FailureGivesEmpty ==
    searcherPc = "returned" =>
        /\ embedOutcome # "ok" => (returned = <<>> /\ ~daoCalled)
        /\ ~daoOk => returned = <<>>

C15_Witness ==
    /\ searcherPc = "returned" /\ embedOutcome = "fail" /\ chunks # <<>>
    /\ callArgs.similarity_threshold = 0 /\ "similarity_threshold" \notin callArgs.none

\* C16: search_similar is called with exactly the topk, similarity_threshold,
\* doc_id and section_path the caller supplied, 0 included; the configured
\* defaults are used only for the arguments the caller left out.
C16_ArgumentsPassedThrough ==
    daoCalled =>
        /\ daoArgs.topk = IF "topk" \in callArgs.none THEN TOPK ELSE callArgs.topk
        /\ daoArgs.similarity_threshold =
              IF "similarity_threshold" \in callArgs.none THEN SIMILARITY_THRESHOLD
              ELSE callArgs.similarity_threshold
        /\ daoArgs.doc_id = callArgs.doc_id
        /\ daoArgs.section_path = callArgs.section_path
        /\ daoArgs.none = callArgs.none \cap {"doc_id", "section_path"}

(***************************************************************************)
(* StructuralChunker.  A text is a sequence of characters.  The letter "a" *)
(* stands for a word; a line of the text that starts, once stripped, with  *)
(* "S" or "T" matches SECTION_PATTERN, with "A" or "B" ARTICLE_PATTERN,    *)
(* with "P" or "Q" PART_PATTERN and with "N" POINT_PATTERN.  The tokenizer *)
(* gives one token to every character that is not white space.            *)
(***************************************************************************)
chunk_size == 4
OverlapPercent == 25
MaxLines == 3

IsSpace(c) == c \in {" ", "\n"}
NonSpace(s) == {k \in DOMAIN s : ~IsSpace(s[k])}
SetMin(S) == CHOOSE x \in S : \A y \in S : x <= y
SetMax(S) == CHOOSE x \in S : \A y \in S : x >= y

\* s.strip()
Strip(s) ==
    IF NonSpace(s) = {} THEN <<>> ELSE SubSeq(s, SetMin(NonSpace(s)), SetMax(NonSpace(s)))

\* s[start:end], for 0 <= start
Slice(s, start, end) == SubSeq(s, start + 1, Min(end, Len(s)))

\* s[-n:]; s[-0:] is the whole of s
Suffix(s, n) == IF n = 0 \/ n >= Len(s) THEN s ELSE SubSeq(s, Len(s) - n + 1, Len(s))

\* len(self.encoding.encode(text))
count_tokens(s) == Cardinality(NonSpace(s))

\* text.split('\n')
RECURSIVE SplitLines(_)
SplitLines(s) ==
    IF \A k \in DOMAIN s : s[k] # "\n" THEN <<s>>
    ELSE LET k == SetMin({n \in DOMAIN s : s[n] = "\n"})
         IN  <<SubSeq(s, 1, k - 1)>> \o SplitLines(SubSeq(s, k + 1, Len(s)))

\* which of the four patterns matches the stripped line
LevelOf(line_stripped) ==
    IF line_stripped = <<>> THEN "none"
    ELSE CASE line_stripped[1] \in {"S", "T"} -> "section"
           [] line_stripped[1] \in {"A", "B"} -> "article"
           [] line_stripped[1] \in {"P", "Q"} -> "part"
           [] line_stripped[1] = "N" -> "point"
           [] OTHER -> "none"

RECURSIVE BoundariesOf(_, _)
BoundariesOf(lines, current_pos) ==
    IF lines = <<>> THEN <<>>
    ELSE LET line_stripped == Strip(Head(lines))
             rest == BoundariesOf(Tail(lines), current_pos + Len(Head(lines)) + 1)
         IN  IF LevelOf(line_stripped) # "none"
             THEN <<[pos |-> current_pos, level |-> LevelOf(line_stripped),
                     title |-> line_stripped]>> \o rest
             ELSE rest

find_structure_boundaries(t) == BoundariesOf(SplitLines(t), 0)

\* re.split(r'[.!?]\s+', text)
DropSpaces(s) == IF NonSpace(s) = {} THEN <<>> ELSE SubSeq(s, SetMin(NonSpace(s)), Len(s))

RECURSIVE SplitSentences(_, _)
SplitSentences(s, piece) ==
    IF s = <<>> THEN <<piece>>
    ELSE IF s[1] = "." /\ Len(s) >= 2 /\ IsSpace(s[2])
         THEN <<piece>> \o SplitSentences(DropSpaces(Tail(s)), <<>>)
         ELSE SplitSentences(Tail(s), Append(piece, s[1]))

\* int(self.chunk_size * self.overlap)
overlap_size == (chunk_size * OverlapPercent) \div 100

\* int(self.chunk_size * 0.25 * 4)
overlap_chars == (chunk_size * 25 * 4) \div 100

\* One chunk of the output.  chunk_id is the number n of f"{doc_id}_chunk_{n}";
\* opened_by is the number of the boundary whose span the chunk comes from
\* (0 in chunk_simple) and is not a field of the program's chunk.
NewChunk(chunk_list, chunk_text, section_path, char_start, char_end, tokens, opened_by) ==
    [chunk_id |-> Len(chunk_list), text |-> chunk_text, section_path |-> section_path,
     chunk_index |-> Len(chunk_list), char_start |-> char_start, char_end |-> char_end,
     tokens |-> tokens, opened_by |-> opened_by]

\* The loop over the sentences of chunk_simple (simple = TRUE, base 0) and of
\* _split_large_chunk (simple = FALSE), and the chunk added after the loop.
\* st holds chunks, current_chunk, current_tokens and chunk_start.
RECURSIVE SentenceLoop(_, _, _)
SentenceLoop(sentences, st, p) ==
    LET start == IF p.simple THEN st.chunk_start ELSE p.base_char_start + st.chunk_start
        saved == Append(st.chunks,
                        NewChunk(st.chunks, Strip(st.current_chunk), p.section_path, start,
                                 start + Len(st.current_chunk), st.current_tokens,
                                 p.opened_by))
    IN
    IF sentences = <<>>
    THEN IF Strip(st.current_chunk) # <<>> THEN saved ELSE st.chunks
    ELSE LET sentence == Head(sentences)
             sentence_tokens == count_tokens(sentence)
             overlap_text == IF Len(st.current_chunk) > overlap_size
                             THEN Suffix(st.current_chunk, overlap_size)
                             ELSE st.current_chunk
             seeded == overlap_text \o <<" ">> \o sentence
             moved == Len(seeded) - Len(overlap_text) - Len(sentence)
         IN  IF st.current_tokens + sentence_tokens > chunk_size /\ st.current_chunk # <<>>
             THEN SentenceLoop(Tail(sentences),
                               [chunks |-> saved,
                                current_chunk |-> seeded,
                                current_tokens |-> count_tokens(seeded),
                                chunk_start |-> IF p.simple THEN st.chunk_start + moved
                                                ELSE p.base_char_start + moved], p)
             ELSE SentenceLoop(Tail(sentences),
                               [st EXCEPT !.current_chunk = @ \o sentence \o <<".", " ">>,
                                          !.current_tokens = @ + sentence_tokens + 2], p)

LoopStart == [chunks |-> <<>>, current_chunk |-> <<>>, current_tokens |-> 0, chunk_start |-> 0]

chunk_simple(t) ==
    SentenceLoop(SplitSentences(t, <<>>), LoopStart,
                 [simple |-> TRUE, base_char_start |-> 0, section_path |-> <<>>,
                  opened_by |-> 0])

split_large_chunk(t, section_path, base_char_start, opened_by) ==
    SentenceLoop(SplitSentences(t, <<>>), LoopStart,
                 [simple |-> FALSE, base_char_start |-> base_char_start,
                  section_path |-> section_path, opened_by |-> opened_by])

\* The article is not remembered for the boundaries that follow.
UpdatePath_ArticleForgotten(st, level, title) ==
    CASE level = "section" ->
            [st EXCEPT !.section_path = <<title>>, !.current_section = title]
      [] level = "article" ->
            [st EXCEPT !.section_path = IF st.current_section # <<>>
                                         THEN <<st.current_section, title>> ELSE <<title>>]
      [] OTHER ->
            [st EXCEPT !.section_path = IF st.current_section # <<>>
                                         THEN <<st.current_section, title>> ELSE <<title>>]

\* The section path of the span a boundary opens.  None and "" are both <<>>.
UpdatePath(st, level, title) ==
    CASE level = "section" ->
            [st EXCEPT !.section_path = <<title>>, !.current_section = title]
      [] level = "article" ->
            [st EXCEPT !.section_path = IF st.current_section # <<>>
                                         THEN <<st.current_section, title>> ELSE <<title>>,
                       !.current_article = title]
      [] level = "part" ->
            [st EXCEPT !.section_path =
                          IF st.current_article # <<>>
                          THEN <<st.current_section, st.current_article, title>>
                          ELSE IF st.current_section # <<>>
                               THEN <<st.current_section, title>> ELSE <<title>>,
                       !.current_part = title]
      [] OTHER ->
            [st EXCEPT !.section_path =
                          IF st.current_part # <<>>
                          THEN <<st.current_section, st.current_article, st.current_part,
                                 title>>
                          ELSE IF st.current_article # <<>>
                               THEN <<st.current_section, st.current_article, title>>
                               ELSE IF st.current_section # <<>>
                                    THEN <<st.current_section, title>> ELSE <<title>>]

\* The while loop of chunk_by_structure, from boundary number k on.
RECURSIVE BoundaryLoop(_, _, _, _)
BoundaryLoop(t, boundaries, k, st) ==
    IF k > Len(boundaries) THEN st.chunks
    ELSE LET start_pos == boundaries[k].pos
             end_pos == IF k < Len(boundaries) THEN boundaries[k + 1].pos ELSE Len(t)
             chunk_text == Strip(Slice(t, start_pos, end_pos))
             u == UpdatePath(st, boundaries[k].level, boundaries[k].title)
             tokens == count_tokens(chunk_text)
         IN  IF chunk_text = <<>> THEN BoundaryLoop(t, boundaries, k + 1, st)
             ELSE BoundaryLoop(t, boundaries, k + 1,
                    [u EXCEPT !.chunks =
                        IF tokens > chunk_size
                        THEN @ \o split_large_chunk(chunk_text, u.section_path, start_pos, k)
                        ELSE Append(@, NewChunk(@, chunk_text, u.section_path, start_pos,
                                                start_pos + Len(chunk_text), tokens, k))])

\* _add_overlap, from the pair (i, i+1) on
RECURSIVE AddOverlapFrom(_, _)
AddOverlapFrom(chunk_list, n) ==
    IF n >= Len(chunk_list) THEN chunk_list
    ELSE IF Len(chunk_list[n].text) > overlap_chars
         THEN AddOverlapFrom(
                [chunk_list EXCEPT ![n + 1].text =
                                  Suffix(chunk_list[n].text, overlap_chars) \o <<"\n", "\n">> \o @,
                               ![n + 1].char_start = chunk_list[n].char_end - overlap_chars],
                n + 1)
         ELSE AddOverlapFrom(chunk_list, n + 1)

add_overlap(chunk_list) == IF Len(chunk_list) <= 1 THEN chunk_list ELSE AddOverlapFrom(chunk_list, 1)

chunk_by_structure(t) ==
    LET boundaries == find_structure_boundaries(t) IN
    IF boundaries = <<>> THEN chunk_simple(t)
    ELSE add_overlap(BoundaryLoop(t, boundaries, 1,
                        [chunks |-> <<>>, current_section |-> <<>>, current_article |-> <<>>,
                         current_part |-> <<>>, section_path |-> <<>>]))

\* The texts: the empty text and up to MaxLines lines, each a marker line or a line of sentences.
LineKinds ==
    {<<"A">>, <<"B">>, <<"S">>, <<"P">>, <<"N">>,
     <<"a", " ", "a", ".", " ", "a", " ", "a">>,
     <<"a", " ", "a", " ", "a", ".", " ", "a", " ", "a", " ", "a", " ", "a", " ", "a">>}

RECURSIVE JoinLines(_)
JoinLines(lines) ==
    IF lines = <<>> THEN <<>>
    ELSE IF Len(lines) = 1 THEN lines[1]
         ELSE lines[1] \o <<"\n">> \o JoinLines(Tail(lines))

DocTexts == {JoinLines(ls) : ls \in UNION {[1..n -> LineKinds] : n \in 0..MaxLines}}

InitChunker ==
    /\ doc_text \in DocTexts
    /\ chunkerPc = "ready"
    /\ returned_chunks = <<>>
    /\ EmptyStore /\ NoDaoHistory /\ NoEmbedding /\ NoIngest /\ NoSearch /\ NoRate
    /\ NoSearcher /\ NoRest

ChunkByStructure ==
    /\ chunkerPc = "ready"
    /\ chunkerPc' = "chunk_by_structure"
    /\ returned_chunks' = chunk_by_structure(doc_text)
    /\ UNCHANGED doc_text
    /\ UNCHANGED notChunker

ChunkSimple ==
    /\ chunkerPc = "ready"
    /\ chunkerPc' = "chunk_simple"
    /\ returned_chunks' = chunk_simple(doc_text)
    /\ UNCHANGED doc_text
    /\ UNCHANGED notChunker

NextChunker == ChunkByStructure \/ ChunkSimple

SpecChunker == InitChunker /\ [][NextChunker]_vars

\* C18: every chunk chunk_by_structure and chunk_simple return has a text of
\* at most chunk_size tokens, unless the text is one sentence that itself has
\* more than chunk_size tokens.
SingleSentence(t) == Len(SplitSentences(t, <<>>)) = 1

C18_TokenBudget ==
    \A n \in DOMAIN returned_chunks :
        \/ count_tokens(returned_chunks[n].text) <= chunk_size
        \/ SingleSentence(returned_chunks[n].text)

C18_Witness ==
    /\ chunkerPc = "chunk_by_structure"
    /\ \E n \in DOMAIN returned_chunks :
          /\ n > 1
          /\ count_tokens(returned_chunks[n].text) > chunk_size
          /\ ~SingleSentence(returned_chunks[n].text)

\* The boundaries of the text, and those of them that are article markers.
TextBoundaries == find_structure_boundaries(doc_text)
ArticleBoundaries == {k \in DOMAIN TextBoundaries : TextBoundaries[k].level = "article"}

\* The last element of a section path that is an article title, <<>> if none.
LastArticleIn(path) ==
    LET at == {k \in DOMAIN path : LevelOf(path[k]) = "article"}
    IN  IF at = {} THEN <<>> ELSE path[SetMax(at)]

\* The article marker nearest before the content of a chunk, <<>> if none.
NearestArticle(c) ==
    LET before == {k \in ArticleBoundaries : k <= c.opened_by}
    IN  IF before = {} THEN <<>> ELSE TextBoundaries[SetMax(before)].title

EveryArticleTagsAChunk ==
    \A k \in ArticleBoundaries :
        \E n \in DOMAIN returned_chunks :
            /\ returned_chunks[n].opened_by = k
            /\ LastArticleIn(returned_chunks[n].section_path) = TextBoundaries[k].title

\* C19 as stated: in a text with two or more article markers every chunk of
\* chunk_by_structure that follows an article marker has that marker, the
\* nearest before it, as the last article-level element of its section_path,
\* and every article marker tags at least one chunk.
C19_EveryChunkTagged ==
    (chunkerPc = "chunk_by_structure" /\ Cardinality(ArticleBoundaries) >= 2) =>
        /\ \A n \in DOMAIN returned_chunks :
              NearestArticle(returned_chunks[n]) # <<>> =>
                LastArticleIn(returned_chunks[n].section_path)
                    = NearestArticle(returned_chunks[n])
        /\ EveryArticleTagsAChunk

\* C19, amended: the same for every chunk that is not opened by a section
\* boundary; the chunk a section boundary opens carries the section title
\* alone.
C19_ChunkBelowSectionTagged ==
    (chunkerPc = "chunk_by_structure" /\ Cardinality(ArticleBoundaries) >= 2) =>
        /\ \A n \in DOMAIN returned_chunks :
              (/\ NearestArticle(returned_chunks[n]) # <<>>
               /\ TextBoundaries[returned_chunks[n].opened_by].level # "section") =>
                LastArticleIn(returned_chunks[n].section_path)
                    = NearestArticle(returned_chunks[n])
        /\ \A n \in DOMAIN returned_chunks :
              TextBoundaries[returned_chunks[n].opened_by].level = "section" =>
                returned_chunks[n].section_path
                    = <<TextBoundaries[returned_chunks[n].opened_by].title>>
        /\ EveryArticleTagsAChunk

C19_Witness ==
    /\ chunkerPc = "chunk_by_structure" /\ Cardinality(ArticleBoundaries) >= 2
    /\ \E m, n \in DOMAIN returned_chunks :
          /\ m < n
          /\ returned_chunks[m].opened_by = returned_chunks[n].opened_by
          /\ returned_chunks[m].opened_by \in ArticleBoundaries

\* The levels, from the shallowest to the deepest.
Depth(level) ==
    CASE level = "section" -> 1 [] level = "article" -> 2 [] level = "part" -> 3
      [] OTHER -> 4

\* The boundary of depth d that is still open at boundary k, 0 if none: the last
\* one before k, unless a shallower boundary came after it.
OpenAt(k, d) ==
    LET same == {m \in 1..(k - 1) :
                    /\ Depth(TextBoundaries[m].level) = d
                    /\ \A x \in (m + 1)..(k - 1) : Depth(TextBoundaries[x].level) >= d}
    IN  IF same = {} THEN 0 ELSE SetMax(same)

RECURSIVE OpenTitles(_, _)
OpenTitles(k, d) ==
    IF d >= Depth(TextBoundaries[k].level) THEN <<>>
    ELSE (IF OpenAt(k, d) = 0 THEN <<>> ELSE <<TextBoundaries[OpenAt(k, d)].title>>)
            \o OpenTitles(k, d + 1)

\* A section path without the "" the chunker puts in place of a missing level.
WithoutPlaceholders(path) == SelectSeq(path, LAMBDA e : e # <<>>)

\* C20: the section_path of the chunk a boundary opens is the titles of the
\* still-open shallower levels followed by the title of the boundary; a new
\* section closes the open article and part, a new article the open part.
C20_PathIsOpenLevels ==
    chunkerPc = "chunk_by_structure" =>
        \A n \in DOMAIN returned_chunks :
            returned_chunks[n].opened_by \in DOMAIN TextBoundaries =>
                WithoutPlaceholders(returned_chunks[n].section_path)
                    = OpenTitles(returned_chunks[n].opened_by, 1)
                        \o <<TextBoundaries[returned_chunks[n].opened_by].title>>

\* C21: along the list chunk_by_structure returns, chunk_index is strictly
\* increasing and the chunk_ids are pairwise distinct, also when oversized
\* spans are split into sub-chunks.
C21_IdsDistinctAndIncreasing ==
    chunkerPc = "chunk_by_structure" =>
        \A m, n \in DOMAIN returned_chunks :
            m < n => /\ returned_chunks[m].chunk_index < returned_chunks[n].chunk_index
                     /\ returned_chunks[m].chunk_id # returned_chunks[n].chunk_id

\* C22: chunk_by_structure on the empty text returns the empty list.
C22_EmptyTextGivesNoChunk ==
    (chunkerPc = "chunk_by_structure" /\ doc_text = <<>>) => returned_chunks = <<>>

\* The fields of the program's chunks.
ProgramFields(chunk_list) ==
    [n \in DOMAIN chunk_list |->
        [chunk_id |-> chunk_list[n].chunk_id, text |-> chunk_list[n].text,
         section_path |-> chunk_list[n].section_path,
         chunk_index |-> chunk_list[n].chunk_index,
         char_start |-> chunk_list[n].char_start, char_end |-> chunk_list[n].char_end,
         tokens |-> chunk_list[n].tokens]]

\* C25: on a text with no boundary or exactly one, chunk_by_structure returns
\* the chunks chunk_simple returns on that text, every section_path empty.
C25_FallbackIsChunkSimple ==
    (chunkerPc = "chunk_by_structure" /\ Len(TextBoundaries) <= 1) =>
        /\ ProgramFields(returned_chunks) = ProgramFields(chunk_simple(doc_text))
        /\ \A n \in DOMAIN returned_chunks : returned_chunks[n].section_path = <<>>

\* a occurs in b as a run of consecutive characters
IsSubstring(a, b) == \E k \in 0..(Len(b) - Len(a)) : SubSeq(b, k + 1, k + Len(a)) = a

\* The chunks of chunk_by_structure as they enter the overlap pass.
BeforeOverlap ==
    IF TextBoundaries = <<>> THEN <<>>
    ELSE BoundaryLoop(doc_text, TextBoundaries, 1,
                      [chunks |-> <<>>, current_section |-> <<>>, current_article |-> <<>>,
                       current_part |-> <<>>, section_path |-> <<>>])

\* C26: where the overlap pass changed chunk n+1, the text put before it is a
\* suffix of the text of chunk n, char_start moved back by the number of
\* characters taken, char_start < char_end, and the span char_start..char_end
\* of the text contains what was taken and the chunk's own text.
C26_OverlapOffsets ==
    (chunkerPc = "chunk_by_structure" /\ TextBoundaries # <<>>) =>
        \A n \in 1..(Len(returned_chunks) - 1) :
            LET before == BeforeOverlap[n + 1]
                after == returned_chunks[n + 1]
                taken == Suffix(returned_chunks[n].text, overlap_chars)
                span == Slice(doc_text, after.char_start, after.char_end)
            IN  after.text # before.text =>
                    /\ SubSeq(after.text, 1, Len(taken)) = taken
                    /\ after.char_start = before.char_start - Len(taken)
                    /\ after.char_start >= 0
                    /\ after.char_start < after.char_end
                    /\ IsSubstring(taken, span)
                    /\ IsSubstring(before.text, span)

\* The sentences of the lines of the text, those with a character in them.
RECURSIVE SentencesOfLines(_)
SentencesOfLines(lines) ==
    IF lines = <<>> THEN {}
    ELSE {x \in Range(SplitSentences(Strip(Head(lines)), <<>>)) : x # <<>>}
            \cup SentencesOfLines(Tail(lines))

\* C27: chunk_by_structure loses no content: every sentence of the text, those
\* before the first boundary and after the last included, is in the text of a
\* returned chunk.
C27_NoContentLost ==
    chunkerPc = "chunk_by_structure" =>
        \A x \in SentencesOfLines(SplitLines(doc_text)) :
            \E n \in DOMAIN returned_chunks : IsSubstring(x, returned_chunks[n].text)

(***************************************************************************)
(* TextCleaner.extract_reference_block.  In a line the character "R"       *)
(* stands for a phrase that one of REFERENCE_BLOCK_PATTERNS matches, and a *)
(* stripped line that starts with "S", "A" or "P" starts with one of the   *)
(* keywords of line 104.                                                   *)
(***************************************************************************)
MaxCleanerLines == 4

\* re.match(pattern, line_stripped, re.IGNORECASE) for one of the patterns
MatchesReferencePattern(line_stripped) == "R" \in Range(line_stripped)

\* line_stripped.startswith(('Розділ', 'Стаття', 'Частина'))
StartsWithKeyword(line_stripped) ==
    line_stripped # <<>> /\ line_stripped[1] \in {"S", "A", "P"}

\* The line that closes the block is put in neither list.
ReferenceStep_ClosingLineDropped(st, line) ==
    IF ~st.in_reference
    THEN IF MatchesReferencePattern(Strip(line))
         THEN [st EXCEPT !.in_reference = TRUE, !.reference_lines = Append(@, line)]
         ELSE [st EXCEPT !.main_lines = Append(@, line)]
    ELSE IF Strip(line) # <<>> /\ ~StartsWithKeyword(Strip(line))
         THEN [st EXCEPT !.reference_lines = Append(@, line)]
         ELSE [st EXCEPT !.in_reference = FALSE]

\* One turn of the loop over the lines.
ReferenceStep(st, line) ==
    IF ~st.in_reference
    THEN IF MatchesReferencePattern(Strip(line))
         THEN [st EXCEPT !.in_reference = TRUE, !.reference_lines = Append(@, line)]
         ELSE [st EXCEPT !.main_lines = Append(@, line)]
    ELSE IF Strip(line) # <<>> /\ ~StartsWithKeyword(Strip(line))
         THEN [st EXCEPT !.reference_lines = Append(@, line)]
         ELSE [st EXCEPT !.in_reference = FALSE, !.main_lines = Append(@, line)]

RECURSIVE ReferenceLoop(_, _)
ReferenceLoop(lines, st) ==
    IF lines = <<>> THEN st ELSE ReferenceLoop(Tail(lines), ReferenceStep(st, Head(lines)))

\* extract_reference_block(text): the two texts returned, and the two lists they
\* are joined from.
extract_reference_block(t) ==
    LET st == ReferenceLoop(SplitLines(t),
                            [main_lines |-> <<>>, reference_lines |-> <<>>,
                             in_reference |-> FALSE])
    IN  [text |-> JoinLines(st.main_lines),
         reference_block |-> JoinLines(st.reference_lines),
         main_lines |-> st.main_lines, reference_lines |-> st.reference_lines]

CleanerLineKinds ==
    {<<"R">>, <<"A">>, <<"a">>, <<>>, <<" ", "a", " ", "R">>, <<"A", " ", "R">>}

RawTexts ==
    {JoinLines(ls) : ls \in UNION {[1..n -> CleanerLineKinds] : n \in 0..MaxCleanerLines}}

InitCleaner ==
    /\ raw_text \in RawTexts
    /\ cleanerPc = "ready"
    /\ cleaned = NoResult
    /\ EmptyStore /\ NoDaoHistory /\ NoEmbedding /\ NoIngest /\ NoSearch /\ NoRate
    /\ NoSearcher /\ NoChunker /\ NoFallback /\ NoConcurrent

ExtractReferenceBlock ==
    /\ cleanerPc = "ready"
    /\ cleanerPc' = "returned"
    /\ cleaned' = extract_reference_block(raw_text)
    /\ UNCHANGED raw_text
    /\ UNCHANGED notCleaner

NextCleaner == ExtractReferenceBlock

SpecCleaner == InitCleaner /\ [][NextCleaner]_vars

\* The two lists when only a line that starts with a keyword closes the block.
RECURSIVE KeywordClosedLoop(_, _)
KeywordClosedLoop(lines, st) ==
    IF lines = <<>> THEN st
    ELSE LET line == Head(lines) IN
         KeywordClosedLoop(Tail(lines),
            IF ~st.in_reference
            THEN IF MatchesReferencePattern(Strip(line))
                 THEN [st EXCEPT !.in_reference = TRUE, !.reference_lines = Append(@, line)]
                 ELSE [st EXCEPT !.main_lines = Append(@, line)]
            ELSE IF StartsWithKeyword(Strip(line))
                 THEN [st EXCEPT !.in_reference = FALSE, !.main_lines = Append(@, line)]
                 ELSE [st EXCEPT !.reference_lines = Append(@, line)])

\* C23: once a line opens the block, that line and every following line go
\* to the reference block until the first line that starts with a section,
\* article or part keyword; only such a line closes the block, and it goes to
\* the main text with the lines after it.
C23_OnlyKeywordClosesBlock ==
    cleanerPc = "returned" =>
        LET expected == KeywordClosedLoop(SplitLines(raw_text),
                            [main_lines |-> <<>>, reference_lines |-> <<>>,
                             in_reference |-> FALSE])
        IN  /\ cleaned.main_lines = expected.main_lines
            /\ cleaned.reference_lines = expected.reference_lines

\* l is a merge of a and b that keeps the order of both
RECURSIVE IsInterleaving(_, _, _)
IsInterleaving(l, a, b) ==
    IF l = <<>> THEN a = <<>> /\ b = <<>>
    ELSE \/ a # <<>> /\ Head(a) = Head(l) /\ IsInterleaving(Tail(l), Tail(a), b)
         \/ b # <<>> /\ Head(b) = Head(l) /\ IsInterleaving(Tail(l), a, Tail(b))

\* C29: extract_reference_block partitions the lines of its input: every line
\* is in exactly one of the two outputs, and each output keeps the input
\* order; the texts returned are these lines joined.
C29_LinesPartitioned ==
    cleanerPc = "returned" =>
        /\ IsInterleaving(SplitLines(raw_text), cleaned.main_lines, cleaned.reference_lines)
        /\ cleaned.text = JoinLines(cleaned.main_lines)
        /\ cleaned.reference_block = JoinLines(cleaned.reference_lines)

C29_Witness ==
    /\ cleanerPc = "returned"
    /\ Len(SplitLines(raw_text)) = 4
    /\ Len(cleaned.reference_lines) = 2
    /\ cleaned.main_lines = <<SplitLines(raw_text)[2], SplitLines(raw_text)[4]>>

(***************************************************************************)
(* EmbeddingsService.chunk_text, the size-based splitter.  Lengths are     *)
(* scaled down: max_chunk_size stands for the chunk size handed in and     *)
(* SearchWindow for the 500 characters searched for a sentence ending.     *)
(***************************************************************************)
max_chunk_size == 4
SearchWindow == 2
MaxTextLen == 6

Max(a, b) == IF a > b THEN a ELSE b

\* text[i] in ['.', '!', '?', '\n']
SentenceEnd(c) == c \in {".", "!", "?", "\n"}

\* The end of the chunk that starts at start: the last sentence ending within
\* the window when the chunk does not reach the end of the text.
ChunkEnd(t, chunk_sz, start) ==
    LET end == Min(start + chunk_sz, Len(t))
        search_start == Max(start, end - SearchWindow)
        found == {k \in (search_start + 1)..(end - 1) : SentenceEnd(t[k + 1])}
    IN  IF end < Len(t) /\ found # {} THEN SetMax(found) + 1 ELSE end

\* while start < len(text)
RECURSIVE SizeLoop(_, _, _, _)
SizeLoop(t, chunk_sz, start, chunk_list) ==
    IF start >= Len(t) THEN chunk_list
    ELSE LET end == ChunkEnd(t, chunk_sz, start)
             chunk == Strip(Slice(t, start, end))
         IN  SizeLoop(t, chunk_sz, end,
                      IF chunk # <<>>
                      THEN Append(chunk_list,
                                  [text |-> chunk, chunk_index |-> Len(chunk_list),
                                   start |-> start, end |-> end])
                      ELSE chunk_list)

\* chunk_text(text, chunk_size); total_chunks is the length of the list
chunk_text(t, chunk_sz) ==
    IF t = <<>> THEN <<>>
    ELSE IF Len(t) <= chunk_sz
         THEN <<[text |-> t, chunk_index |-> 0, start |-> 0, end |-> Len(t)]>>
         ELSE SizeLoop(t, chunk_sz, 0, <<>>)

ActTexts == UNION {[1..n -> {"a", ".", " ", "\n"}] : n \in 0..MaxTextLen}

InitFallback ==
    /\ act_text \in ActTexts
    /\ fallbackPc = "ready"
    /\ act_chunks = <<>>
    /\ EmptyStore /\ NoDaoHistory /\ NoEmbedding /\ NoIngest /\ NoSearch /\ NoRate
    /\ NoSearcher /\ NoChunker /\ NoCleaner /\ NoConcurrent

ChunkText ==
    /\ fallbackPc = "ready"
    /\ fallbackPc' = "returned"
    /\ act_chunks' = chunk_text(act_text, max_chunk_size)
    /\ UNCHANGED act_text
    /\ UNCHANGED notFallback

NextFallback == ChunkText

SpecFallback == InitFallback /\ [][NextFallback]_vars

\* C24: for a text longer than the chunk size, chunk_text returns non-empty chunks
\* of at most chunk_size characters, numbered 0..n-1, whose [start, end) ranges
\* are contiguous and cover the whole text; a text of at most
\* 2*chunk_size - window characters gives exactly two chunks.
C24_ContiguousCover ==
    (fallbackPc = "returned" /\ Len(act_text) > max_chunk_size) =>
        /\ act_chunks # <<>>
        /\ \A k \in DOMAIN act_chunks :
              /\ act_chunks[k].text # <<>>
              /\ Len(act_chunks[k].text) <= max_chunk_size
              /\ act_chunks[k].chunk_index = k - 1
              /\ act_chunks[k].start = IF k = 1 THEN 0 ELSE act_chunks[k - 1].end
        /\ act_chunks[Len(act_chunks)].end = Len(act_text)
        /\ Len(act_text) <= 2 * max_chunk_size - SearchWindow => Len(act_chunks) = 2

\* C28: generate_embeddings returns exactly one result per input chunk, in
\* input order, whatever the provider calls do (success, failure, or a response
\* with fewer vectors than texts); no input chunk is missing from the result.
C28_OneResultPerChunk ==
    EmbeddingReturned =>
        /\ Len(results) = Len(input)
        /\ \A n \in DOMAIN results : results[n].chunk_id = input[n].chunk_id

(***************************************************************************)
(* Two insert_chunks_batch calls on two connections.  Each call is one     *)
(* transaction; its steps are its SQL statements.  The SELECT sees         *)
(* committed rows only.  An INSERT of a chunk_id that the other open       *)
(* transaction has inserted waits for that transaction to end (the primary *)
(* key's unique index); when both wait for each other the database ends    *)
(* one of the two statements with a deadlock error.                        *)
(***************************************************************************)
Callers == {1, 2}
Other(p) == IF p = 1 THEN 2 ELSE 1

AllDocuments ==
    UpsertDocument(UpsertDocument(<<>>, [doc_id |-> "d1",
                                         metadata |-> [title |-> "t1", needs_ocr |-> None]]),
                   [doc_id |-> "d2", metadata |-> [title |-> "t1", needs_ocr |-> None]])

NewCall(batch) ==
    [batch |-> batch, pc |-> "select", todo |-> <<>>, successful |-> 0,
     aborted |-> FALSE, written |-> <<>>, ret |-> 0]

\* The chunk of the INSERT the call is about to execute.
NextRow(p) == ChunkRow(Head(calls[p].todo))

\* The open transaction of q has inserted a row with this chunk_id.
Held(q, cid) == calls[q].pc = "insert" /\ HasChunk(calls[q].written, cid)

\* The next INSERT of p has to wait for the other transaction.
Waiting(p) ==
    /\ calls[p].pc = "insert"
    /\ calls[p].todo # <<>>
    /\ ~calls[p].aborted
    /\ RowAccepted(chunks \o calls[p].written, documents, NextRow(p))
    /\ Held(Other(p), NextRow(p).chunk_id)

InitConcurrent ==
    /\ documents = AllDocuments
    /\ chunks = <<>>
    /\ calls \in [Callers -> {NewCall(b) : b \in Batches}]
    /\ NoDaoHistory /\ NoEmbedding /\ NoIngest /\ NoSearch /\ NoRate
    /\ NoSearcher /\ NoChunker /\ NoCleaner /\ NoFallback

\* SELECT chunk_id FROM chunks WHERE chunk_id = ANY(chunk_ids), the filter, and
\* the early return when nothing is new.
SelectExisting(p) ==
    LET new_chunks == NewChunks(calls[p].batch, Existing(chunks, calls[p].batch)) IN
    /\ calls[p].pc = "select"
    /\ calls' = [calls EXCEPT ![p] =
                    IF new_chunks = <<>>
                    THEN [@ EXCEPT !.pc = "done", !.ret = Len(calls[p].batch)]
                    ELSE [@ EXCEPT !.pc = "insert", !.todo = new_chunks]]
    /\ UNCHANGED chunks
    /\ UNCHANGED notConcurrent

\* One turn of `for chunk in new_chunks`: the INSERT, successful += 1, or the
\* exception logged.  A failed statement aborts the transaction.
InsertChunk(p) ==
    /\ calls[p].pc = "insert"
    /\ calls[p].todo # <<>>
    /\ ~Waiting(p)
    /\ calls' = [calls EXCEPT ![p] =
          IF calls[p].aborted THEN [@ EXCEPT !.todo = Tail(@)]
          ELSE IF RowAccepted(chunks \o calls[p].written, documents, NextRow(p))
               THEN [@ EXCEPT !.todo = Tail(@), !.successful = @ + 1,
                              !.written = Append(@, NextRow(p))]
               ELSE [@ EXCEPT !.todo = Tail(@), !.aborted = TRUE, !.written = <<>>]]
    /\ UNCHANGED chunks
    /\ UNCHANGED notConcurrent

\* Both calls wait for each other: the INSERT of p raises the deadlock error.
DeadlockDetected(p) ==
    /\ Waiting(p)
    /\ Waiting(Other(p))
    /\ calls' = [calls EXCEPT ![p] =
                    [@ EXCEPT !.todo = Tail(@), !.aborted = TRUE, !.written = <<>>]]
    /\ UNCHANGED chunks
    /\ UNCHANGED notConcurrent

\* conn.commit() and return successful.  COMMIT of an aborted transaction is a
\* ROLLBACK and raises nothing.
Commit(p) ==
    /\ calls[p].pc = "insert"
    /\ calls[p].todo = <<>>
    /\ chunks' = IF calls[p].aborted THEN chunks ELSE chunks \o calls[p].written
    /\ calls' = [calls EXCEPT ![p] =
                    [@ EXCEPT !.pc = "done", !.ret = calls[p].successful, !.written = <<>>]]
    /\ UNCHANGED notConcurrent

NextConcurrent ==
    \/ \E p \in Callers : SelectExisting(p)
    \/ \E p \in Callers : InsertChunk(p)
    \/ \E p \in Callers : DeadlockDetected(p)
    \/ \E p \in Callers : Commit(p)

SpecConcurrent == InitConcurrent /\ [][NextConcurrent]_vars

BatchIds(p) == {calls[p].batch[k].chunk_id : k \in DOMAIN calls[p].batch}

\* C30: when two insert_chunks_batch calls with overlapping chunk_ids run
\* concurrently, then after both have returned the store holds exactly one row
\* per chunk_id of the union of the two batches, and each call has returned a
\* count that does not exceed the number of its batch's chunks in the store.
C30_ConcurrentBatches ==
    (/\ \A p \in Callers : calls[p].pc = "done"
     /\ \A p \in Callers : Distinct([k \in DOMAIN calls[p].batch |-> calls[p].batch[k].chunk_id])
     /\ BatchIds(1) \cap BatchIds(2) # {}) =>
        /\ \A cid \in BatchIds(1) \cup BatchIds(2) : Cardinality(RowsOfChunk(cid)) = 1
        /\ \A p \in Callers :
              calls[p].ret <= Cardinality({cid \in BatchIds(p) : HasChunk(chunks, cid)})
====
